---------------------------- MODULE Spec2Model ----------------------------
(***************************************************************************)
(* StudyBuddy: the memory state of the Koncept nodes of the knowledge      *)
(* graph and the operations that read and write it:                        *)
(*   update_mastery_score      (pages/study.py)                            *)
(*   MemoryService.record_review (services/memory_service.py)              *)
(*   update_learning_progress, find_optimal_concept,                       *)
(*   calculate_concept_score, register_confusion (pages/smart_training.py) *)
(*                                                                         *)
(* Numbers.  The program computes with Python floats.  Every real-valued   *)
(* quantity is modelled as an integer count of units of 1/Scale (1e-4),    *)
(* rounded to the nearest unit after each multiplication or division.      *)
(* int(x) of the source (truncation) is integer division.  For intervals   *)
(* up to 131 days the truncations int(interval * ease_factor) and           *)
(* int(interval * ease_factor * 1.3) of the floats agree with the integer  *)
(* arithmetic used here (checked exhaustively on the floats).              *)
(*                                                                         *)
(* Time.  Timestamps are integer clock ticks, TicksPerDay ticks to a day.  *)
(* Each datetime.now() of the source is one read of the clock; two reads   *)
(* in one handler may fall in the same tick or in consecutive ticks.       *)
(***************************************************************************)
EXTENDS Integers, Sequences, FiniteSets, TLC

(***************************************************************************)
(* Bounds of the model.                                                    *)
(***************************************************************************)
MaxReviews == 4
MaxPractice == 1
MaxUpdates == 2
MaxInterval == 130
MaxTime == 3
MaxEvents == 3
MaxConfusions == 2
MaxStale == 4
MaxAnswers == 4
TicksPerDay == 2

(***************************************************************************)
(* Fixed-point units.                                                      *)
(***************************************************************************)
Scale == 10 ^ 4
Milli(n) == n * (Scale \div 1000)
Null == -1

Max(a, b) == IF a >= b THEN a ELSE b
Min(a, b) == IF a <= b THEN a ELSE b
\* n / d rounded to the nearest unit (d > 0).
RoundDiv(n, d) == (n + d \div 2) \div d

\* Python's `x or default`: None and 0 are both falsy.
Or(x, default) == IF x = Null \/ x = 0 THEN default ELSE x
\* Cypher's COALESCE(x, default): only null is replaced.
\* An unconditional SET in place of the fill-in.
COALESCE_overwrite(x, default) == default

COALESCE(x, default) == IF x = Null THEN default ELSE x

AllConcepts == {"A", "B", "C"}
\* The concepts of the graphs with at most two.
TwoConcepts == {"A", "B"}

VARIABLES
    Koncept,        \* the Koncept nodes of the graph (by namn)
    id,             \* c.id, Null on a node MERGEd as a bare prerequisite
    mastery_score, retention, difficulty, interval, ease_factor,
    review_count, last_review, next_review, last_quality,
    Student,        \* the Student nodes of the graph (by id; "none": no id property)
    forgetting_factor,  \* s.forgetting_factor of the Student node
    learning_history,   \* s.learning_history of the Student node
    streak_days,        \* s.streak_days of the Student node
    last_review_date,   \* s.last_review_date of the Student node
    in_flight,      \* per browser session: the row a record_review has read
    FORVAXLAS_MED,  \* count of the confusion relation created from a to b (0: none)
    FORUTSATTER,    \* the prerequisite relation: <<c, prereq>>
    session_state,  \* st.session_state of the smart-training page
    now,            \* the wall clock, in ticks
    returned,       \* what the last handler returned
    updates         \* how many update_mastery_score calls the run has made

fields == <<mastery_score, retention, difficulty, interval, ease_factor,
            review_count, last_review, next_review, last_quality>>
student == <<Student, forgetting_factor, learning_history, streak_days,
             last_review_date>>
graph == <<FORVAXLAS_MED, FORUTSATTER>>
vars == <<Koncept, id, fields, graph, student, session_state, in_flight, now,
          returned, updates>>

(***************************************************************************)
(* math.exp / np.exp of a non-positive argument: exp(-x) for x >= 0 in     *)
(* units of 1/Scale, from a table of exp(-k/10) with linear interpolation. *)
(***************************************************************************)
ExpTable == <<10000, 9048, 8187, 7408, 6703, 6065, 5488, 4966, 4493, 4066,
              3679, 3329, 3012, 2725, 2466, 2231, 2019, 1827, 1653, 1496,
              1353, 1225, 1108, 1003, 907, 821, 743, 672, 608, 550,
              498, 450, 408, 369, 334, 302, 273, 247, 224, 202,
              183, 166, 150, 136, 123, 111, 101, 91, 82, 74,
              67, 61, 55, 50, 45, 41, 37, 33, 30, 27,
              25, 22, 20, 18, 17, 15, 14, 12, 11, 10,
              9, 8, 7, 7, 6, 6, 5, 5, 4, 4,
              3, 3, 3, 2, 2, 2, 2, 2, 2, 1,
              1, 1, 1, 1, 1, 1, 1, 1, 1, 1, 0>>

ExpNeg(x) ==
    LET step == Scale \div 10
        k == x \div step
        r == x % step
    IN  IF k >= Len(ExpTable) - 1 THEN 0
        ELSE ExpTable[k + 1]
             - ((ExpTable[k + 1] - ExpTable[k + 2]) * r) \div step

(***************************************************************************)
(* Koncept nodes.  GraphBuilder CREATEs a concept with the memory          *)
(* defaults, and MERGEs a prerequisite it has not seen as a bare node      *)
(* (namn only); a later build COALESCEs the defaults into an existing node.*)
(***************************************************************************)
ConceptId(c) == IF c = "A" THEN 1 ELSE IF c = "B" THEN 2 ELSE 3

Set(f, c, v) == [f EXCEPT ![c] = v]

InitKoncept(nodes, bare) ==
    LET made(c) == c \in nodes \ bare
        d(c, v) == IF made(c) THEN v ELSE Null
    IN  /\ Koncept = nodes
        /\ id = [c \in AllConcepts |-> d(c, ConceptId(c))]
        /\ mastery_score = [c \in AllConcepts |-> d(c, 0)]
        /\ retention = [c \in AllConcepts |-> d(c, Milli(1000))]
        /\ difficulty = [c \in AllConcepts |-> d(c, Milli(300))]
        /\ interval = [c \in AllConcepts |-> d(c, 1)]
        /\ ease_factor = [c \in AllConcepts |-> d(c, Milli(2500))]
        /\ review_count = [c \in AllConcepts |-> d(c, 0)]
        /\ last_review = [c \in AllConcepts |-> Null]
        /\ next_review = [c \in AllConcepts |-> Null]
        /\ last_quality = [c \in AllConcepts |-> Null]

\* The else branch of build_graph: the concept exists already.
build_graph_existing(c) ==
    /\ c \in Koncept
    /\ mastery_score' = Set(mastery_score, c, COALESCE(mastery_score[c], 0))
    /\ id' = Set(id, c, COALESCE(id[c], ConceptId(c)))
    /\ retention' = Set(retention, c, COALESCE(retention[c], Milli(1000)))
    /\ difficulty' = Set(difficulty, c, COALESCE(difficulty[c], Milli(300)))
    /\ interval' = Set(interval, c, COALESCE(interval[c], 1))
    /\ ease_factor' = Set(ease_factor, c, COALESCE(ease_factor[c], Milli(2500)))
    /\ review_count' = Set(review_count, c, COALESCE(review_count[c], 0))
    /\ returned' = [op |-> "build_graph", concept |-> c]
    /\ UNCHANGED <<Koncept, last_review, next_review, last_quality, graph,
                   student, session_state, in_flight, now>>

(***************************************************************************)
(* The wall clock.                                                         *)
(***************************************************************************)
Tick ==
    /\ now < MaxTime
    /\ now' = now + 1
    /\ UNCHANGED <<Koncept, id, fields, graph, student, session_state,
                   in_flight, returned>>

\* A later datetime.now() in the same handler: the same tick or the next.
LaterReads(t) == {u \in {t, t + 1} : u <= MaxTime}

(***************************************************************************)
(* update_mastery_score (pages/study.py, pages/study_old.py).              *)
(***************************************************************************)
\* The learning rates of the call sites, and the default.
LearningRates ==
    {Milli(100), Milli(150), Milli(250), Milli(300), Milli(500), Milli(1000)}

\* The scores handed in: LLM understanding scores, the manual slider.
Scores == {0, Milli(400), Milli(800), Milli(1000)}

\* The two weights exchanged.
updated_score_swapped(current_score, new_score, learning_rate) ==
    RoundDiv(learning_rate * current_score
                 + (Scale - learning_rate) * new_score, Scale)

updated_score(current_score, new_score, learning_rate) ==
    RoundDiv((Scale - learning_rate) * current_score
                 + learning_rate * new_score, Scale)

update_mastery_score(concept_name, new_score, learning_rate) ==
    LET record == concept_name \in Koncept
        current_score ==
            IF record THEN COALESCE(mastery_score[concept_name], 0) ELSE 0
        score == updated_score(current_score, new_score, learning_rate)
    IN  /\ mastery_score' =
              IF record THEN Set(mastery_score, concept_name, score)
              ELSE mastery_score
        /\ returned' = [op |-> "update_mastery_score",
                        concept_name |-> concept_name,
                        new_score |-> new_score,
                        learning_rate |-> learning_rate,
                        current_score |-> current_score,
                        updated_score |-> score]
        /\ UNCHANGED <<Koncept, id, retention, difficulty, interval,
                       ease_factor, review_count, last_review, next_review,
                       last_quality, graph, student, in_flight, now>>

(***************************************************************************)
(* The Student node (pages/smart_training.py, services/memory_service.py). *)
(***************************************************************************)
\* get_or_create_student_profile: MATCH (s:Student) LIMIT 1, else MERGE by id.
\* MATCH (s:Student) narrowed to the node with the student id.
MATCH_Student_by_id(S) == S \cap {"main-student"}

\* MATCH (s:Student): every Student node, with or without an id.
MATCH_Student(S) == S

\* The Student node is found, or merged on the id "main-student" when the
\* graph has none.
get_or_create_student_profile ==
    IF MATCH_Student(Student) # {}
    THEN UNCHANGED student
    ELSE /\ Student' = Student \cup {"main-student"}
         /\ learning_history' = <<>>
         /\ UNCHANGED <<forgetting_factor, streak_days, last_review_date>>

\* MemoryService.get_user_profile: the profile read, with the defaults
\* filled in; creates the Student node with the defaults when there is none.
profile_forgetting_factor ==
    IF Student # {} THEN COALESCE(forgetting_factor, Milli(300)) ELSE Milli(300)

get_user_profile ==
    IF Student # {}
    THEN UNCHANGED student
    ELSE /\ Student' = {"none"}
         /\ forgetting_factor' = Milli(300)
         /\ UNCHANGED <<learning_history, streak_days, last_review_date>>

\* update_ai_profile reads success_rate, which is bound only when one of the
\* last 100 events has a success value: otherwise it raises.
LastN(h, n) == IF Len(h) > n THEN SubSeq(h, Len(h) - n + 1, Len(h)) ELSE h

update_ai_profile_raises(history) ==
    /\ Len(history) >= 10
    /\ \A i \in DOMAIN LastN(history, 100) :
           LastN(history, 100)[i].success = "None"

\* track_learning_event: append the event, keep the last 1000, save; any
\* exception is caught and nothing is saved.
track_learning_event(event_type, concept_name, success) ==
    IF Student = {}
    THEN get_or_create_student_profile
    ELSE LET event == [event_type |-> event_type, concept |-> concept_name,
                       success |-> success]
             history == LastN(Append(learning_history, event), 1000)
         IN  /\ learning_history' =
                   IF update_ai_profile_raises(history)
                   THEN learning_history ELSE history
             /\ UNCHANGED <<Student, forgetting_factor, streak_days,
                            last_review_date>>

(***************************************************************************)
(* update_learning_progress (pages/smart_training.py).                     *)
(***************************************************************************)
Bool(b) == IF b THEN "True" ELSE "False"

\* Without the clamps to [0, 1].
new_mastery_unclamped(mastery, success, partial) ==
    IF success THEN mastery + Milli(100)
    ELSE IF partial THEN mastery + Milli(50)
    ELSE mastery - Milli(50)

new_mastery(mastery, success, partial) ==
    IF success THEN Min(Milli(1000), mastery + Milli(100))
    ELSE IF partial THEN Min(Milli(1000), mastery + Milli(50))
    ELSE Max(0, mastery - Milli(50))

new_retention(r, success, partial) ==
    IF success THEN Min(Milli(2000), RoundDiv(r * 12, 10))
    ELSE IF partial THEN r
    ELSE Max(Milli(500), RoundDiv(r * 8, 10))

new_difficulty(d, success, partial) ==
    IF success THEN Max(Milli(100), RoundDiv(d * 9, 10))
    ELSE IF partial THEN d
    ELSE Min(Milli(900), RoundDiv(d * 11, 10))

\* Days to the next review: int(new_retention * 7) after a success, else 1.
progress_interval(r, success) ==
    IF success THEN (r * 7) \div Scale ELSE 1

update_learning_progress(concept_name, success, partial) ==
    /\ track_learning_event("concept_practice", concept_name, Bool(success))
    /\ IF concept_name \in Koncept
       THEN LET mastery == Or(mastery_score[concept_name], 0)
                r == Or(retention[concept_name], Milli(1000))
                d == Or(difficulty[concept_name], Milli(300))
                count == Or(review_count[concept_name], 0)
                nr == new_retention(r, success, partial)
            IN  /\ count < MaxReviews
                /\ \E t \in LaterReads(now) :
                     /\ next_review' = Set(next_review, concept_name,
                            now + progress_interval(nr, success) * TicksPerDay)
                     /\ last_review' = Set(last_review, concept_name, t)
                     /\ now' = t
                /\ mastery_score' = Set(mastery_score, concept_name,
                                        new_mastery(mastery, success, partial))
                /\ retention' = Set(retention, concept_name, nr)
                /\ difficulty' = Set(difficulty, concept_name,
                                     new_difficulty(d, success, partial))
                /\ review_count' = Set(review_count, concept_name, count + 1)
       ELSE UNCHANGED <<mastery_score, retention, difficulty, review_count,
                        last_review, next_review, now>>
    /\ UNCHANGED <<Koncept, id, interval, ease_factor, last_quality, graph,
                   in_flight>>

(***************************************************************************)
(* MemoryService.record_review (services/memory_service.py).               *)
(***************************************************************************)
Qualities == 0 .. 3

\* "Latt" computed with the raised ease factor instead of the old one.
review_interval_new_ease(i, e, quality) ==
    IF quality = 0 THEN 1
    ELSE IF quality = 1 THEN Max(1, (i * 6) \div 10)
    ELSE IF quality = 2 THEN (i * e) \div Scale
    ELSE (i * Min(Milli(2800), e + Milli(100)) * 13) \div (10 * Scale)

\* "Svart" without the floor of one day.
review_interval_unfloored(i, e, quality) ==
    IF quality = 0 THEN 1
    ELSE IF quality = 1 THEN (i * 6) \div 10
    ELSE IF quality = 2 THEN (i * e) \div Scale
    ELSE (i * e * 13) \div (10 * Scale)

\* "Glomt" keeping the interval instead of resetting it.
review_interval_keep(i, e, quality) ==
    IF quality = 0 THEN i
    ELSE IF quality = 1 THEN Max(1, (i * 6) \div 10)
    ELSE IF quality = 2 THEN (i * e) \div Scale
    ELSE (i * e * 13) \div (10 * Scale)

review_interval(i, e, quality) ==
    IF quality = 0 THEN 1
    ELSE IF quality = 1 THEN Max(1, (i * 6) \div 10)
    ELSE IF quality = 2 THEN (i * e) \div Scale
    ELSE (i * e * 13) \div (10 * Scale)

\* Without the cap at 2.8.
review_ease_factor_uncapped(e, quality) ==
    IF quality = 0 THEN Max(Milli(1300), e - Milli(300))
    ELSE IF quality = 1 THEN Max(Milli(1300), e - Milli(150))
    ELSE IF quality = 2 THEN e
    ELSE e + Milli(100)

review_ease_factor(e, quality) ==
    IF quality = 0 THEN Max(Milli(1300), e - Milli(300))
    ELSE IF quality = 1 THEN Max(Milli(1300), e - Milli(150))
    ELSE IF quality = 2 THEN e
    ELSE Min(Milli(2800), e + Milli(100))

review_difficulty(d, quality) ==
    IF quality = 0 THEN Min(Milli(900), d + Milli(100))
    ELSE IF quality = 1 THEN Min(Milli(900), d + Milli(50))
    ELSE IF quality = 2 THEN d
    ELSE Max(Milli(100), d - Milli(50))

\* The count ignores what is stored.
review_count_restarted(count) == 1

\* (record['review_count'] or 0) + 1
new_review_count(count) == Or(count, 0) + 1

\* np.exp(-forgetting_factor * days): positive for every finite argument,
\* so never below the smallest positive unit.
_calculate_retention(days_until_review, ff) ==
    Max(1, ExpNeg(ff * days_until_review))

record_review(concept_id, quality) ==
    LET record == {c \in Koncept : id[c] = concept_id}
    IN  /\ returned' = [op |-> "record_review", concept_id |-> concept_id,
                        quality |-> quality, at |-> now]
        /\ IF record = {}
           THEN UNCHANGED <<fields, student, now>>
           ELSE \E c \in record :
                LET i == Or(interval[c], 1)
                    e == Or(ease_factor[c], Milli(2500))
                    count == new_review_count(review_count[c])
                    d == Or(difficulty[c], Milli(300))
                    ni == review_interval(i, e, quality)
                IN  /\ count <= MaxReviews
                    /\ ni <= MaxInterval
                    /\ get_user_profile
                    /\ \E t \in LaterReads(now) :
                         /\ next_review' =
                                Set(next_review, c, now + ni * TicksPerDay)
                         /\ last_review' = Set(last_review, c, t)
                         /\ now' = t
                    /\ interval' = Set(interval, c, ni)
                    /\ ease_factor' =
                           Set(ease_factor, c, review_ease_factor(e, quality))
                    /\ review_count' = Set(review_count, c, count)
                    /\ difficulty' =
                           Set(difficulty, c, review_difficulty(d, quality))
                    /\ retention' = Set(retention, c,
                           _calculate_retention(ni, profile_forgetting_factor))
                    /\ last_quality' = Set(last_quality, c, quality)
                    /\ UNCHANGED mastery_score
        /\ UNCHANGED <<Koncept, id, graph, in_flight>>

(***************************************************************************)
(* The training-priority scorer (pages/smart_training.py).                 *)
(***************************************************************************)
\* What the queries of the scorer read: the memory fields of the Koncept
\* nodes, the confusion relations, and the clock.
neo4j ==
    [mastery_score |-> mastery_score, retention |-> retention,
     difficulty |-> difficulty, review_count |-> review_count,
     last_review |-> last_review, next_review |-> next_review,
     FORVAXLAS_MED |-> FORVAXLAS_MED, now |-> now]

\* The rows of get_all_concepts_with_memory_data, one dict per Koncept node.
concept_data(db, c) ==
    [namn |-> c,
     mastery_score |-> Or(db.mastery_score[c], 0),
     retention |-> Or(db.retention[c], Milli(1000)),
     difficulty |-> Or(db.difficulty[c], Milli(300)),
     review_count |-> Or(db.review_count[c], 0),
     last_review |-> db.last_review[c],
     next_review |-> db.next_review[c],
     prerequisites |-> {p \in Koncept : <<c, p>> \in FORUTSATTER},
     dependencies |-> {d \in Koncept : <<d, c>> \in FORUTSATTER}]

\* Cypher fixes no order for the rows of a MATCH without ORDER BY.
RowOrders ==
    {o \in [1 .. Cardinality(Koncept) -> Koncept] :
        \A i, j \in DOMAIN o : o[i] = o[j] => i = j}

\* Only the rows with mastery_score < 0.7.
get_unmastered_concepts(db, order) ==
    SelectSeq([k \in DOMAIN order |-> concept_data(db, order[k])],
              LAMBDA row : row.mastery_score < Milli(700))

get_all_concepts_with_memory_data(db, order) ==
    [k \in DOMAIN order |-> concept_data(db, order[k])]

\* Only the relations that start at the concept.
confusion_counts_outgoing(db, namn) ==
    {<<p, db.FORVAXLAS_MED[p]>> :
        p \in {q \in Koncept \X Koncept :
                  db.FORVAXLAS_MED[q] > 0 /\ q[1] = namn}}

\* The FORVAXLAS_MED relations of the concept, matched in either direction,
\* each with its count.
confusion_counts(db, namn) ==
    {<<p, db.FORVAXLAS_MED[p]>> :
        p \in {q \in Koncept \X Koncept :
                  db.FORVAXLAS_MED[q] > 0 /\ (q[1] = namn \/ q[2] = namn)}}

RECURSIVE Sum(_)
Sum(S) ==
    IF S = {} THEN 0
    ELSE LET x == CHOOSE y \in S : TRUE IN x[2] + Sum(S \ {x})

\* A concept never reviewed counted as reviewed just now.
time_since_review_fresh(db, concept) ==
    IF concept.last_review # Null
    THEN RoundDiv((db.now - concept.last_review) * Scale, TicksPerDay)
    ELSE 0

\* Days since the last review; 30 when the concept was never reviewed.
time_since_review(db, concept) ==
    IF concept.last_review # Null
    THEN RoundDiv((db.now - concept.last_review) * Scale, TicksPerDay)
    ELSE 30 * Scale

\* retention * exp(-time_since_review / (retention * 10))
current_retention(r, t) ==
    RoundDiv(r * ExpNeg(RoundDiv(t * (Scale \div 10), r)), Scale)

calculate_concept_score(db, concept) ==
    LET mastery == concept.mastery_score
        r == concept.retention
        d == concept.difficulty
        recall_improvement ==
            Max(0, Milli(900)
                     - current_retention(r, time_since_review(db, concept)))
        discrimination_bonus ==
            Sum({<<x[1], Or(x[2], 1) * Milli(100)>> :
                    x \in confusion_counts(db, concept.namn)})
        success_probability == RoundDiv(mastery * (Scale - d), Scale) + Milli(300)
        failure_risk ==
            IF success_probability < Milli(600)
            THEN (Milli(600) - success_probability) * 2 ELSE 0
        estimated_time == 5 * Scale + d * 10
        numerator == recall_improvement + discrimination_bonus - failure_risk
        \* numerator / (estimated_time / 60), as numerator * 6 / (estimated_time / 10)
        dependency_bonus == Cardinality(concept.dependencies) * Milli(50)
    IN  [total_score |-> RoundDiv(numerator * 6 * Scale, estimated_time \div 10)
                            + dependency_bonus,
         recall_improvement |-> recall_improvement,
         current_retention |->
             current_retention(r, time_since_review(db, concept)),
         training_effect |-> discrimination_bonus,
         failure_risk |-> failure_risk,
         success_probability |-> success_probability,
         estimated_time |-> estimated_time]

\* `score >= best_score`.
is_better_or_equal(score, best) == best = <<>> \/ score >= best[2].total_score

\* `score > best_score`; best is <<>> while best_score is -inf.
is_better(score, best) == best = <<>> \/ score > best[2].total_score

\* The loop of find_optimal_concept over concepts[k ..]: best is <<>> (None,
\* {}) or <<best_concept, best_details>>.
RECURSIVE best_from(_, _, _, _)
best_from(db, concepts, k, best) ==
    IF k > Len(concepts) THEN best
    ELSE LET details == calculate_concept_score(db, concepts[k])
         IN  best_from(db, concepts, k + 1,
                 IF is_better(details.total_score, best)
                 THEN <<concepts[k], details>> ELSE best)

\* The empty result when no row has mastery_score < 0.7.
find_unmastered_concept(db, order) ==
    LET concepts == get_all_concepts_with_memory_data(db, order)
    IN  IF \A k \in DOMAIN concepts : concepts[k].mastery_score >= Milli(700)
        THEN <<>> ELSE best_from(db, concepts, 1, <<>>)

find_optimal_concept(db, order) ==
    LET concepts == get_all_concepts_with_memory_data(db, order)
    IN  IF Len(concepts) = 0 THEN <<>> ELSE best_from(db, concepts, 1, <<>>)

(***************************************************************************)
(* The smart-training page (pages/smart_training.py): st.session_state is  *)
(* a dict, a key is in it or not.  A button handler that ends in           *)
(* st.rerun() is followed at once by the next run of the script, which     *)
(* looks for the next concept when no training is current.                 *)
(***************************************************************************)
Has(s, k) == k \in DOMAIN s
Del(s, k) == [x \in DOMAIN s \ {k} |-> s[x]]
Put(s, k, v) == [x \in DOMAIN s \cup {k} |-> IF x = k THEN v ELSE s[x]]
Get(s, k, default) == IF Has(s, k) THEN s[k] ELSE default

\* Content generated by the LLM for the concept namn.
generated(namn) == [kind |-> "generated", concept |-> namn, index |-> 0]

\* current_question as the index of the quick test.
question_index(k) == [kind |-> "index", concept |-> "None", index |-> k]

\* generate_micro_test_questions returns two questions.
QuickTestLen == 2

\* The top of show_quick_test_section: the test is initialised when there
\* are no test_questions in the session.
init_quick_test(s, namn) ==
    IF Has(s, "test_questions") THEN s
    ELSE Put(Put(s, "test_questions", generated(namn)),
             "current_question", question_index(0))

\* The training method by the mastery of concept_data.
training_mode(s) ==
    IF ~Has(s, "current_training") THEN "none"
    ELSE IF s.current_training.concept.mastery_score < Milli(300)
    THEN "guided"
    ELSE IF s.current_training.concept.mastery_score < Milli(700)
    THEN "practice"
    ELSE "advanced"

\* The part of render that shows the training of current_training:
\* show_guided_learning (with the quick test when it is switched on),
\* show_practice_mode or show_advanced_mode.  Each generates its content
\* when its key is not in the session.
show_training(s) ==
    LET namn == s.current_training.concept.namn
    IN  IF training_mode(s) = "none" THEN s
        ELSE IF training_mode(s) = "guided"
        THEN IF Get(s, "show_quick_test", FALSE)
             THEN init_quick_test(s, namn) ELSE s
        ELSE IF training_mode(s) = "practice"
        THEN IF Has(s, "current_question") THEN s
             ELSE Put(Put(s, "current_question", generated(namn)),
                      "question_answered", FALSE)
        ELSE IF Has(s, "advanced_task") THEN s
             ELSE Put(s, "advanced_task", generated(namn))

\* The render that follows a handler: the optimal training is looked for
\* when there is none, and the training is shown; run in the state the
\* handler leaves behind, from the session s the handler leaves behind.
rerun(s, op) ==
    IF ~Has(s, "current_training") /\ Has(s, "smart_training_initialized")
    THEN \E order \in RowOrders : \E db \in {neo4j'} :
           \E result \in {find_optimal_concept(db, order)} :
               /\ session_state' =
                      IF result # <<>>
                      THEN show_training(
                               Put(s, "current_training",
                                   [concept |-> result[1],
                                    score_details |-> result[2],
                                    start_time |-> db.now]))
                      ELSE s
               /\ returned' =
                      [op |-> "find_optimal_concept",
                       concepts |-> get_all_concepts_with_memory_data(db, order),
                       details |->
                           [k \in DOMAIN get_all_concepts_with_memory_data(db, order)
                              |-> calculate_concept_score(db,
                                     get_all_concepts_with_memory_data(db, order)[k])],
                       result |-> result]
    ELSE /\ session_state' = show_training(s)
         /\ returned' = [op |-> op]

\* "Starta smart traning".
start_smart_training ==
    /\ ~Has(session_state, "smart_training_initialized")
    /\ UNCHANGED <<Koncept, id, fields, graph, student, in_flight, now>>
    /\ rerun(Put(session_state, "smart_training_initialized", TRUE),
             "start_smart_training")

\* "Hitta nytt".
hitta_nytt ==
    /\ UNCHANGED <<Koncept, id, fields, graph, student, in_flight, now>>
    /\ rerun(Del(session_state, "current_training"), "hitta_nytt")

\* "Forstatt!", "Osaker", "For svart" under the current training.
forstatt ==
    /\ Has(session_state, "current_training")
    /\ update_learning_progress(session_state.current_training.concept.namn,
                                TRUE, FALSE)
    /\ rerun(Del(session_state, "current_training"), "forstatt")

osaker ==
    /\ Has(session_state, "current_training")
    /\ update_learning_progress(session_state.current_training.concept.namn,
                                FALSE, TRUE)
    /\ rerun(session_state, "osaker")

for_svart ==
    /\ Has(session_state, "current_training")
    /\ LET namn == session_state.current_training.concept.namn
       IN  /\ update_learning_progress(namn, FALSE, FALSE)
           /\ rerun(Put(Put(session_state, "show_confusion_modal", TRUE),
                        "failed_concept", namn), "for_svart")

\* get_similar_concepts: the other concepts of the course.
get_similar_concepts(concept_name) ==
    IF concept_name \in Koncept THEN Koncept \ {concept_name} ELSE {}

\* MERGE (c1)-[r:FORVAXLAS_MED]->(c2): only a relation from c1 to c2 is
\* matched.
register_confusion_directed(concept1, concept2) ==
    /\ FORVAXLAS_MED' =
           IF concept1 \notin Koncept \/ concept2 \notin Koncept
           THEN FORVAXLAS_MED
           ELSE [FORVAXLAS_MED EXCEPT ![<<concept1, concept2>>] = @ + 1]
    /\ UNCHANGED FORUTSATTER

\* MERGE (c1)-[r:FORVAXLAS_MED]-(c2): a relation in either direction is
\* matched and counted up, else one is created from c1 to c2 with count 1.
register_confusion(concept1, concept2) ==
    LET matched == {p \in {<<concept1, concept2>>, <<concept2, concept1>>} :
                       FORVAXLAS_MED[p] > 0}
    IN  /\ FORVAXLAS_MED' =
               IF concept1 \notin Koncept \/ concept2 \notin Koncept
               THEN FORVAXLAS_MED
               ELSE IF matched = {}
               THEN [FORVAXLAS_MED EXCEPT ![<<concept1, concept2>>] = 1]
               ELSE [p \in DOMAIN FORVAXLAS_MED |->
                        IF p \in matched THEN FORVAXLAS_MED[p] + 1
                        ELSE FORVAXLAS_MED[p]]
        /\ UNCHANGED FORUTSATTER

close_modal(s) ==
    Del(Put(Put(s, "show_confusion_modal", FALSE), "failed_concept", "None"),
        "current_training")

\* show_confusion_modal: "Registrera" with the selected concept.
registrera(confused_with) ==
    /\ Get(session_state, "show_confusion_modal", FALSE)
    /\ confused_with \in {"Inget speciellt"}
                             \cup get_similar_concepts(session_state.failed_concept)
    /\ IF confused_with # "Inget speciellt"
       THEN register_confusion(session_state.failed_concept, confused_with)
       ELSE UNCHANGED graph
    /\ UNCHANGED <<Koncept, id, fields, student, in_flight, now>>
    /\ rerun(close_modal(session_state), "registrera")

\* show_confusion_modal: "Hoppa over".
hoppa_over ==
    /\ Get(session_state, "show_confusion_modal", FALSE)
    /\ UNCHANGED <<Koncept, id, fields, graph, student, in_flight, now>>
    /\ rerun(close_modal(session_state), "hoppa_over")

\* "Testa mig kort (2 fragor)" of show_guided_learning: the quick test is
\* switched on and shown further down in the same run.
test_btn ==
    /\ training_mode(session_state) = "guided"
    /\ session_state' =
           init_quick_test(Put(session_state, "show_quick_test", TRUE),
                           session_state.current_training.concept.namn)
    /\ returned' = [op |-> "test_btn"]
    /\ UNCHANGED <<Koncept, id, fields, graph, student, in_flight, now>>

\* The session after the last answer of the quick test.
rensa_test(s) ==
    Put(Del(Del(s, "test_questions"), "current_question"),
        "show_quick_test", FALSE)

\* "Nasta ->" of show_quick_test_section: the index moves on; after the
\* last question the answers are evaluated, the result goes to
\* update_learning_progress for the concept shown and the test is removed
\* from the session.
nasta(correct_count) ==
    /\ training_mode(session_state) = "guided"
    /\ Get(session_state, "show_quick_test", FALSE)
    /\ session_state.current_question.index < QuickTestLen
    /\ LET namn == session_state.current_training.concept.namn
           current_q == session_state.current_question.index + 1
       IN  IF current_q >= QuickTestLen
           THEN /\ update_learning_progress(
                       namn, 2 * correct_count > QuickTestLen,
                       2 * correct_count = QuickTestLen)
                /\ session_state' = rensa_test(session_state)
                /\ returned' = [op |-> "quick_test",
                                questions |-> session_state.test_questions,
                                concept |-> namn]
           ELSE /\ session_state' = Put(session_state, "current_question",
                                        question_index(current_q))
                /\ returned' = [op |-> "nasta"]
                /\ UNCHANGED <<Koncept, id, fields, graph, student,
                               in_flight, now>>

(***************************************************************************)
(* Specifications.                                                         *)
(***************************************************************************)
InitStudent ==
    /\ Student = {}
    /\ forgetting_factor = Null
    /\ learning_history = <<>>
    /\ streak_days = Null
    /\ last_review_date = Null

\* A feedback button of the training page pressed on concept c, seen from
\* the graph: the session of the page is not part of these specifications.
practice(c, success, partial) ==
    /\ update_learning_progress(c, success, partial)
    /\ returned' = [op |-> "update_learning_progress", concept |-> c,
                    success |-> success, partial |-> partial]
    /\ UNCHANGED session_state

InitGraph ==
    /\ FORVAXLAS_MED = [p \in AllConcepts \X AllConcepts |-> 0]
    /\ FORUTSATTER = {}

\* The browser sessions that may have a record_review under way.
Sessions == {1, 2}

InitSession ==
    /\ session_state = [k \in {} |-> TRUE]
    /\ in_flight = [s \in Sessions |-> <<>>]

InitOne ==
    /\ \E bare \in SUBSET {"A"} : InitKoncept({"A"}, bare)
    /\ InitGraph
    /\ InitSession
    /\ InitStudent
    /\ now = 0
    /\ returned = [op |-> "none"]
    /\ updates = 0

MasteryNext ==
    \/ /\ updates < MaxUpdates
       /\ updates' = updates + 1
       /\ \E c \in TwoConcepts, s \in Scores, lr \in LearningRates :
              update_mastery_score(c, s, lr) /\ UNCHANGED session_state
    \/ /\ UNCHANGED updates
       /\ \E c \in Koncept, success \in BOOLEAN, partial \in BOOLEAN :
              /\ Or(review_count[c], 0) < MaxPractice
              /\ practice(c, success, partial)

SpecMastery == InitOne /\ [][MasteryNext]_vars

ReviewNext ==
    /\ UNCHANGED updates
    /\ \/ \E c \in Koncept, q \in Qualities :
              record_review(ConceptId(c), q) /\ UNCHANGED session_state
       \/ \E c \in Koncept, success \in BOOLEAN, partial \in BOOLEAN :
              practice(c, success, partial)
       \/ \E c \in Koncept : build_graph_existing(c)
       \/ Tick

SpecReview == InitOne /\ [][ReviewNext]_vars

\* The mastery slider of the study page (0.0 to 1.0 in steps of 0.1, stored
\* with learning rate 1.0): the positions around the 0.7 mark, and the top.
ManualScores == {Milli(700), Milli(1000)}

(***************************************************************************)
(* The operations on the Student node, in any order.                       *)
(***************************************************************************)
\* What the operations on the Student node leave alone.
NoConcept ==
    UNCHANGED <<Koncept, id, fields, graph, session_state, in_flight, now,
                updates>>

\* MemoryService.get_streak_days: creates the Student node when there is
\* none; a streak is reset after more than one day without a review and
\* continued after exactly one.
get_streak_days ==
    /\ NoConcept
    /\ IF MATCH_Student(Student) = {}
       THEN /\ Student' = {"none"}
            /\ streak_days' = 0
            /\ last_review_date' = Null
            /\ returned' = [op |-> "get_streak_days", streak |-> 0]
            /\ UNCHANGED <<forgetting_factor, learning_history>>
       ELSE LET streak == COALESCE(streak_days, 0)
                days_diff == now \div TicksPerDay -
                             last_review_date \div TicksPerDay
            IN  IF last_review_date # Null /\ days_diff > 1
                THEN /\ streak_days' = 0
                     /\ returned' = [op |-> "get_streak_days", streak |-> 0]
                     /\ UNCHANGED <<Student, forgetting_factor,
                                    learning_history, last_review_date>>
                ELSE IF last_review_date # Null /\ days_diff = 1
                THEN /\ streak_days' = streak + 1
                     /\ last_review_date' = now
                     /\ returned' = [op |-> "get_streak_days",
                                     streak |-> streak + 1]
                     /\ UNCHANGED <<Student, forgetting_factor,
                                    learning_history>>
                ELSE /\ returned' = [op |-> "get_streak_days",
                                     streak |-> streak]
                     /\ UNCHANGED student

\* The forgetting-factor slider of the repetition page: 0.1 to 0.5 in steps
\* of 0.05.
ForgettingFactors == {Milli(100 + 50 * k) : k \in 0 .. 8}

\* MemoryService.update_user_profile: MATCH (s:Student) SET, on no node a
\* no-op.
update_user_profile(new_forgetting_factor) ==
    /\ NoConcept
    /\ forgetting_factor' =
           IF MATCH_Student(Student) # {} THEN new_forgetting_factor
           ELSE forgetting_factor
    /\ returned' = [op |-> "update_user_profile",
                    forgetting_factor |-> new_forgetting_factor]
    /\ UNCHANGED <<Student, learning_history, streak_days, last_review_date>>

\* update_student_preferences(custom_instructions=...): MATCH (s:Student)
\* SET; it returns whether a node was matched.
update_student_preferences ==
    /\ NoConcept
    /\ returned' = [op |-> "update_student_preferences",
                    result |-> MATCH_Student(Student) # {}]
    /\ UNCHANGED student

\* The event types of the call sites that carry no success value, and the
\* one that does.
EventTypes == {"viewed_visualization", "practice_question"}

StudentNext ==
    \/ /\ get_or_create_student_profile
       /\ returned' = [op |-> "get_or_create_student_profile"]
       /\ NoConcept
    \/ /\ get_user_profile
       /\ returned' = [op |-> "get_user_profile",
                       forgetting_factor |-> profile_forgetting_factor]
       /\ NoConcept
    \/ get_streak_days
    \/ \E ff \in ForgettingFactors : update_user_profile(ff)
    \/ update_student_preferences
    \/ \E event_type \in EventTypes, success \in {"True", "False", "None"} :
          /\ Len(learning_history) < MaxEvents
          /\ (event_type = "practice_question") = (success # "None")
          /\ track_learning_event(event_type, "A", success)
          /\ returned' = [op |-> "track_learning_event",
                          event_type |-> event_type]
          /\ NoConcept

SpecStudent == InitOne /\ [][StudentNext]_vars

\* The feedback given so far, over all concepts, is within the bound.
RECURSIVE Total(_, _)
Total(f, S) ==
    IF S = {} THEN 0
    ELSE LET c == CHOOSE x \in S : TRUE IN Or(f[c], 0) + Total(f, S \ {c})

TrainingBudget == Total(review_count, Koncept) < MaxPractice

(***************************************************************************)
(* record_review of two browser sessions: the query that reads the row and *)
(* the query that writes it are separate auto-commit transactions.         *)
(***************************************************************************)
\* The first query: the row of the concept as session s reads it.
read_review(s, concept_id, quality) ==
    /\ in_flight[s] = <<>>
    /\ \E c \in {k \in Koncept : id[k] = concept_id} :
          in_flight' = [in_flight EXCEPT ![s] =
              [concept |-> c, concept_id |-> concept_id, quality |-> quality,
               interval |-> interval[c], ease_factor |-> ease_factor[c],
               review_count |-> review_count[c],
               difficulty |-> difficulty[c]]]
    /\ UNCHANGED <<Koncept, id, fields, graph, student, session_state, now,
                   returned, updates>>

\* review_count = c.review_count + 1 evaluated by the writing query.
written_review_count_incremented(record, stored) == new_review_count(stored)

\* $review_count: the count computed from the row that was read.
written_review_count(record, stored) == new_review_count(record.review_count)

\* The rest of the call: the new values computed from the row read, the
\* user profile, and the one SET that stores all the fields.
write_review(s) ==
    /\ in_flight[s] # <<>>
    /\ LET record == in_flight[s]
           c == record.concept
           quality == record.quality
           i == Or(record.interval, 1)
           e == Or(record.ease_factor, Milli(2500))
           d == Or(record.difficulty, Milli(300))
           ni == review_interval(i, e, quality)
       IN  /\ ni <= MaxInterval
           /\ get_user_profile
           /\ \E t \in LaterReads(now) :
                /\ next_review' = Set(next_review, c, now + ni * TicksPerDay)
                /\ last_review' = Set(last_review, c, t)
                /\ now' = t
           /\ interval' = Set(interval, c, ni)
           /\ ease_factor' = Set(ease_factor, c, review_ease_factor(e, quality))
           /\ review_count' =
                  Set(review_count, c,
                      written_review_count(record, review_count[c]))
           /\ difficulty' = Set(difficulty, c, review_difficulty(d, quality))
           /\ retention' = Set(retention, c,
                  _calculate_retention(ni, profile_forgetting_factor))
           /\ last_quality' = Set(last_quality, c, quality)
           /\ returned' = [op |-> "record_review", session |-> s,
                           record |-> record]
    /\ in_flight' = [in_flight EXCEPT ![s] = <<>>]
    /\ UNCHANGED <<Koncept, id, mastery_score, graph, session_state>>

ConcurrentNext ==
    \/ /\ updates < MaxUpdates
       /\ \E s \in Sessions, c \in Koncept, q \in Qualities :
              read_review(s, ConceptId(c), q)
    \/ /\ updates' = updates + 1
       /\ \E s \in Sessions : write_review(s)
    \/ /\ UNCHANGED updates
       /\ Tick

SpecConcurrent == InitOne /\ [][ConcurrentNext]_vars

(***************************************************************************)
(* "Direkt bedomning" of the study page (pages/study.py): one script run   *)
(* per user action, and a second one when the handler ends in st.rerun().  *)
(* The concept studied is "A".                                             *)
(***************************************************************************)
\* understanding_score of evaluate_understanding.
UnderstandingScores == {0, Milli(400), Milli(800), Milli(1000)}

\* The three questions generated for a concept; <<>> stands for None.
assessment_questions(concept_name) ==
    [k \in 1 .. 3 |-> <<concept_name, k>>]

learning_mode(s) == Get(s, "learning_mode", "None")

\* The top of render_assessment_learning: the counters are initialised when
\* missing, and the questions are generated when the key is missing or the
\* questions are those of another concept.
initiera_bedomning(s, concept_name) ==
    LET s1 == IF Has(s, "assessment_questions_answered") THEN s
              ELSE Put(s, "assessment_questions_answered", 0)
        s2 == IF Has(s1, "assessment_score") THEN s1
              ELSE Put(s1, "assessment_score", 0)
    IN  IF ~Has(s2, "assessment_questions")
           \/ Get(s2, "assessment_concept", "None") # concept_name
        THEN Put(Put(s2, "assessment_questions",
                     assessment_questions(concept_name)),
                 "assessment_concept", concept_name)
        ELSE s2

\* avg_score = assessment_score / 3
avg_score(s) == RoundDiv(s.assessment_score, 3)

\* The result screen is rendered: update_mastery_score is called.
bedomning_klar(s) ==
    /\ updates < MaxUpdates
    /\ updates' = updates + 1
    /\ update_mastery_score("A", avg_score(s), Milli(150))

\* One script run of render_assessment_learning that starts from session
\* state s with no button pressed.  With the counter below 3 it reads
\* assessment_questions[assessment_questions_answered], which raises when
\* the questions are None and leaves the session as it is.
render_assessment_learning(s, op) ==
    \E s1 \in {initiera_bedomning(s, "A")} :
        /\ session_state' = s1
        /\ IF s1.assessment_questions_answered >= 3
           THEN bedomning_klar(s1)
           ELSE /\ returned' = [op |-> op]
                /\ UNCHANGED <<Koncept, id, fields, graph, student, in_flight,
                               now, updates>>

\* The three buttons of the result screen reset the assessment.
nollstall(s) ==
    Put(Put(Put(s, "assessment_questions_answered", 0),
            "assessment_score", 0), "assessment_questions", <<>>)

valj_direkt_bedomning ==
    /\ learning_mode(session_state) = "None"
    /\ render_assessment_learning(
           Put(session_state, "learning_mode", "assessment"),
           "valj_direkt_bedomning")

\* The checkbox of the AI context is toggled: the page is rendered again.
assessment_include_graph ==
    /\ learning_mode(session_state) = "assessment"
    /\ render_assessment_learning(session_state, "assessment_include_graph")

\* "Skicka svar": the answer is evaluated and counted, then st.rerun().
skicka_svar(score) ==
    /\ learning_mode(session_state) = "assessment"
    /\ session_state.assessment_questions_answered < 3
    /\ session_state.assessment_questions # <<>>
    /\ render_assessment_learning(
           Put(Put(session_state, "assessment_score",
                   session_state.assessment_score + score),
               "assessment_questions_answered",
               session_state.assessment_questions_answered + 1),
           "skicka_svar")

\* "Fortsatt studera detta koncept": the run in which the button is pressed
\* renders the result screen first, then resets and reruns.
fortsatt_studera ==
    /\ learning_mode(session_state) = "assessment"
    /\ session_state.assessment_questions_answered >= 3
    /\ bedomning_klar(session_state)
    /\ session_state' = initiera_bedomning(nollstall(session_state), "A")

\* "Byt till Sokratisk dialog".
byt_till_sokratisk ==
    /\ learning_mode(session_state) = "assessment"
    /\ session_state.assessment_questions_answered >= 3
    /\ bedomning_klar(session_state)
    /\ session_state' =
           Put(nollstall(session_state), "learning_mode", "socratic")

\* "Ga vidare till nasta koncept", offered from an average of 0.7.
ga_vidare ==
    /\ learning_mode(session_state) = "assessment"
    /\ session_state.assessment_questions_answered >= 3
    /\ avg_score(session_state) >= Milli(700)
    /\ bedomning_klar(session_state)
    /\ session_state' = Put(nollstall(session_state), "learning_mode", "None")

\* The selectbox "Byt larstil": the counters are reset (the questions are
\* not), then st.rerun().
byt_larstil(new_mode) ==
    /\ learning_mode(session_state) \notin {"None", new_mode}
    /\ \E s \in {Put(Put(Put(session_state, "learning_mode", new_mode),
                         "assessment_questions_answered", 0),
                     "assessment_score", 0)} :
          IF new_mode = "assessment"
          THEN render_assessment_learning(s, "byt_larstil")
          ELSE /\ session_state' = s
               /\ returned' = [op |-> "byt_larstil"]
               /\ UNCHANGED <<Koncept, id, fields, graph, student, in_flight,
                              now, updates>>

AssessmentNext ==
    \/ valj_direkt_bedomning
    \/ assessment_include_graph
    \/ \E score \in UnderstandingScores : skicka_svar(score)
    \/ fortsatt_studera
    \/ byt_till_sokratisk
    \/ ga_vidare
    \/ \E new_mode \in {"socratic", "assessment"} : byt_larstil(new_mode)

SpecAssessment == InitOne /\ [][AssessmentNext]_vars

(***************************************************************************)
(* The Socratic dialogue of the study page (pages/study.py), on the        *)
(* concept "A".                                                            *)
(***************************************************************************)
understanding_progress(s) == Get(s, "understanding_progress", 0)

\* "Valj sokratisk dialog".
choose_socratic ==
    /\ learning_mode(session_state) = "None"
    /\ session_state' = Put(session_state, "learning_mode", "socratic")
    /\ returned' = [op |-> "choose_socratic"]
    /\ UNCHANGED <<Koncept, id, fields, graph, student, in_flight, now,
                   updates>>

\* "Valj annat koncept": the dialogue is left and its progress dropped.
change_concept ==
    /\ learning_mode(session_state) # "None"
    /\ session_state' = Put(Put(session_state, "learning_mode", "None"),
                            "understanding_progress", 0)
    /\ returned' = [op |-> "change_concept"]
    /\ UNCHANGED <<Koncept, id, fields, graph, student, in_flight, now,
                   updates>>

\* "Satt mastery manuellt": the slider value is stored as it is.
update_manual_mastery(manual_score) ==
    /\ learning_mode(session_state) # "None"
    /\ manual_score # COALESCE(mastery_score["A"], 0)
    /\ update_mastery_score("A", manual_score, Milli(1000))
    /\ UNCHANGED <<session_state, updates>>

\* increase = min(eval_score * 0.2, 0.2);
\* new_progress = min(understanding_progress + increase, 1.0)
new_progress(progress, eval_score) ==
    Min(progress + Min(RoundDiv(eval_score * Milli(200), Scale), Milli(200)),
        Milli(1000))

\* An answer typed into the chat: it is evaluated, the progress of the
\* dialogue grows, and from a score of 0.3 the progress is handed to
\* update_mastery_score.
svara(eval_score) ==
    /\ learning_mode(session_state) = "socratic"
    /\ updates < MaxAnswers
    /\ updates' = updates + 1
    /\ \E p \in {new_progress(understanding_progress(session_state),
                              eval_score)} :
          /\ session_state' = Put(session_state, "understanding_progress", p)
          /\ IF eval_score >= Milli(300)
             THEN update_mastery_score("A", p, Milli(150))
             ELSE /\ returned' = [op |-> "svara", eval_score |-> eval_score]
                  /\ UNCHANGED <<Koncept, id, fields, graph, student,
                                 in_flight, now>>

\* "Avsluta och spara", offered from a progress of 0.8.
save_progress ==
    /\ learning_mode(session_state) = "socratic"
    /\ understanding_progress(session_state) >= Milli(800)
    /\ update_mastery_score("A", understanding_progress(session_state),
                            Milli(300))
    /\ session_state' = Put(Put(session_state, "learning_mode", "None"),
                            "understanding_progress", 0)
    /\ UNCHANGED updates

SocraticNext ==
    \/ choose_socratic
    \/ change_concept
    \/ \E manual_score \in ManualScores : update_manual_mastery(manual_score)
    \/ \E eval_score \in UnderstandingScores : svara(eval_score)
    \/ save_progress

SpecSocratic == InitOne /\ [][SocraticNext]_vars

(***************************************************************************)
(* The review tab of the repetition page (pages/repetition.py).  Every     *)
(* concept that build_graph created belongs to the course of the filter.   *)
(***************************************************************************)
\* The concepts that the query of get_due_concepts matches.
DueSet ==
    {c \in Koncept : /\ id[c] # Null
                     /\ (next_review[c] = Null \/ next_review[c] <= now)}

\* ORDER BY c.next_review ASC: a missing next_review sorts last, and equal
\* values come in any order.
get_due_concepts ==
    {o \in [1 .. Cardinality(DueSet) -> DueSet] :
        /\ \A i, j \in DOMAIN o : o[i] = o[j] => i = j
        /\ \A i, j \in DOMAIN o :
               i < j => \/ next_review[o[j]] = Null
                        \/ /\ next_review[o[i]] # Null
                           /\ next_review[o[i]] <= next_review[o[j]]}

\* What show_review_tab renders: nothing due, the concept at the index, or
\* "Du har repeterat alla koncept for denna session!".
shown ==
    IF DueSet = {} THEN {"Bra jobbat"}
    ELSE IF Get(session_state, "current_concept_idx", 0) < Cardinality(DueSet)
    THEN {due[Get(session_state, "current_concept_idx", 0) + 1] :
             due \in get_due_concepts}
    ELSE {"alla koncept"}

\* The tab is opened: the index starts at 0 when something is due.
show_review_tab ==
    /\ DueSet # {}
    /\ ~Has(session_state, "current_concept_idx")
    /\ session_state' = Put(session_state, "current_concept_idx", 0)
    /\ returned' = [op |-> "show_review_tab"]
    /\ UNCHANGED <<Koncept, id, fields, graph, student, in_flight, now,
                   updates>>

\* A rating button: the rerun fetches the due concepts again, the concept
\* at the index is reviewed and the index moves on.
record_response(quality) ==
    /\ Has(session_state, "current_concept_idx")
    /\ \E due \in get_due_concepts :
          /\ session_state.current_concept_idx < Len(due)
          /\ record_review(
                 ConceptId(due[session_state.current_concept_idx + 1]),
                 quality)
    /\ \E s \in {Put(session_state, "current_concept_idx",
                     session_state.current_concept_idx + 1)} :
          session_state' = s

\* "Borja om".
borja_om ==
    /\ Has(session_state, "current_concept_idx")
    /\ shown = {"alla koncept"}
    /\ session_state' = Put(session_state, "current_concept_idx", 0)
    /\ returned' = [op |-> "borja_om"]
    /\ UNCHANGED <<Koncept, id, fields, graph, student, in_flight, now,
                   updates>>

InitRepetition ==
    /\ InitKoncept(AllConcepts, {})
    /\ InitGraph
    /\ InitSession
    /\ InitStudent
    /\ now = 0
    /\ returned = [op |-> "none"]
    /\ updates = 0

RepetitionNext ==
    \/ /\ UNCHANGED updates
       /\ \/ show_review_tab
          \/ borja_om
          \/ Tick
    \/ /\ updates < MaxUpdates
       /\ updates' = updates + 1
       /\ \E quality \in Qualities : record_response(quality)

SpecRepetition == InitRepetition /\ [][RepetitionNext]_vars

(***************************************************************************)
(* The learning history: events tracked on top of a short history, of a    *)
(* history one event short of the analysis, and of one one event short of  *)
(* the cap.                                                                 *)
(***************************************************************************)
\* The events of the call sites: two views (no success value) and an
\* answered practice question.
TrackedEvents ==
    {[event_type |-> "viewed_visualization", concept |-> "A",
      success |-> "None"],
     [event_type |-> "viewed_misconceptions", concept |-> "A",
      success |-> "None"],
     [event_type |-> "practice_question", concept |-> "A",
      success |-> "True"],
     [event_type |-> "practice_question", concept |-> "A",
      success |-> "False"]}

\* The history left by n calls with the same event.
Tracked(n, event_type, success) ==
    [k \in 1 .. n |-> [event_type |-> event_type, concept |-> "A",
                       success |-> success]]

InitHistory ==
    /\ InitKoncept({"A"}, {})
    /\ InitGraph
    /\ InitSession
    /\ forgetting_factor = Null
    /\ streak_days = Null
    /\ last_review_date = Null
    /\ \/ Student = {} /\ learning_history = <<>>
       \/ /\ Student = {"main-student"}
          /\ learning_history \in
                {Tracked(10 - 1, "viewed_visualization", "None"),
                 Tracked(1000 - 1, "practice_question", "True")}
    /\ now = 0
    /\ returned = [op |-> "none"]
    /\ updates = 0

HistoryNext ==
    /\ updates < MaxEvents
    /\ updates' = updates + 1
    /\ \E event \in TrackedEvents :
          /\ track_learning_event(event.event_type, event.concept,
                                  event.success)
          /\ returned' = [op |-> "track_learning_event", event |-> event,
                          student |-> Student # {}]
    /\ UNCHANGED <<Koncept, id, fields, graph, session_state, in_flight, now>>

SpecHistory == InitHistory /\ [][HistoryNext]_vars

(***************************************************************************)
(* The daily streak of the repetition page: reviews on successive days and *)
(* the streak metric read in between.                                      *)
(***************************************************************************)
StreakNext ==
    \/ /\ UNCHANGED updates
       /\ \/ \E c \in Koncept, q \in Qualities :
                 record_review(ConceptId(c), q) /\ UNCHANGED session_state
          \/ Tick
    \/ get_streak_days

SpecStreak == InitOne /\ [][StreakNext]_vars

(***************************************************************************)
(* record_review called with any integer quality.                          *)
(***************************************************************************)
\* quality: int, the four ratings, the next integer, a negative one and a
\* large one.
AnyQuality == (0 .. 4) \cup {-2, 10}

QualityNext ==
    /\ UNCHANGED updates
    /\ \/ \E c \in Koncept, q \in AnyQuality :
              record_review(ConceptId(c), q) /\ UNCHANGED session_state
       \/ \E c \in Koncept : build_graph_existing(c)
       \/ Tick

SpecQuality == InitOne /\ [][QualityNext]_vars

(***************************************************************************)
(* Reported confusions and the scores they change.                         *)
(***************************************************************************)
InitConfusion ==
    /\ InitKoncept(AllConcepts, {})
    /\ InitGraph
    /\ InitSession
    /\ InitStudent
    /\ now = 0
    /\ returned = [op |-> "none"]
    /\ updates = 0

\* The reports of one pair of concepts, in either direction.
reports(a, b) == FORVAXLAS_MED[<<a, b>>] + FORVAXLAS_MED[<<b, a>>]

ConfusionNext ==
    \/ /\ updates' = updates + 1
       /\ \E failed_concept \in Koncept :
            \E confused_with \in get_similar_concepts(failed_concept) :
              /\ reports(failed_concept, confused_with) < MaxConfusions
              /\ register_confusion(failed_concept, confused_with)
              /\ returned' = [op |-> "register_confusion",
                              concept1 |-> failed_concept,
                              concept2 |-> confused_with]
              /\ UNCHANGED <<Koncept, id, fields, student, session_state,
                             in_flight, now>>
    \/ /\ UNCHANGED updates
       /\ TrainingBudget
       /\ \E c \in Koncept, success \in BOOLEAN, partial \in BOOLEAN :
              practice(c, success, partial)

SpecConfusion == InitConfusion /\ [][ConfusionNext]_vars

\* The score box of the progression page (0.0 to 1.0 in steps of 0.1): the
\* "Uppdatera" button stores the chosen score as it is.
uppdatera(namn, new_score) ==
    /\ namn \in Koncept
    /\ new_score # COALESCE(mastery_score[namn], 0)
    /\ mastery_score' = Set(mastery_score, namn, new_score)
    /\ returned' = [op |-> "uppdatera", concept |-> namn,
                    new_score |-> new_score]
    /\ UNCHANGED <<Koncept, id, retention, difficulty, interval, ease_factor,
                   review_count, last_review, next_review, last_quality,
                   graph, student, session_state, in_flight, now>>

\* Every user-triggered operation that stores a memory field of a concept.
WritersNext ==
    \/ /\ updates < MaxUpdates
       /\ updates' = updates + 1
       /\ \/ \E c \in Koncept, s \in ManualScores,
                   lr \in {Milli(300), Milli(1000)} :
                 update_mastery_score(c, s, lr) /\ UNCHANGED session_state
          \/ \E c \in Koncept, s \in ManualScores : uppdatera(c, s)
    \/ /\ UNCHANGED updates
       /\ \/ \E c \in Koncept, q \in Qualities :
                 /\ Or(review_count[c], 0) < MaxUpdates
                 /\ record_review(ConceptId(c), q)
                 /\ UNCHANGED session_state
          \/ \E c \in Koncept, success \in BOOLEAN, partial \in BOOLEAN :
                 /\ Or(review_count[c], 0) < MaxPractice
                 /\ practice(c, success, partial)
          \/ \E c \in Koncept : build_graph_existing(c)

SpecWriters == InitOne /\ [][WritersNext]_vars

InitTraining ==
    /\ \E nodes \in {{}, {"A"}, TwoConcepts} :
         /\ InitKoncept(nodes, {})
         /\ FORUTSATTER \in {{}, {<<"A", "B">>} \cap (nodes \X nodes)}
    /\ FORVAXLAS_MED = [p \in AllConcepts \X AllConcepts |-> 0]
    /\ InitSession
    /\ InitStudent
    /\ now = 0
    /\ returned = [op |-> "none"]
    /\ updates = 0

TrainingNext ==
    \/ /\ updates < MaxUpdates
       /\ updates' = updates + 1
       /\ \E c \in Koncept, s \in ManualScores :
              update_mastery_score(c, s, Milli(1000)) /\ UNCHANGED session_state
    \/ /\ UNCHANGED updates
       /\ \/ start_smart_training
          \/ hitta_nytt
          \/ TrainingBudget /\ forstatt
          \/ TrainingBudget /\ osaker
          \/ TrainingBudget /\ for_svart
          \/ \E confused_with \in TwoConcepts \cup {"Inget speciellt"} :
                 registrera(confused_with)
          \/ hoppa_over

SpecTraining == InitTraining /\ [][TrainingNext]_vars

(***************************************************************************)
(* The training page with the content it caches in the session: two        *)
(* concepts, their mastery set from the progression page before the        *)
(* training is started.                                                    *)
(***************************************************************************)
ContentScores == {Milli(500), Milli(800)}

InitContent ==
    /\ InitKoncept(TwoConcepts, {})
    /\ InitGraph
    /\ InitSession
    /\ InitStudent
    /\ now = 0
    /\ returned = [op |-> "none"]
    /\ updates = 0

ContentNext ==
    \/ /\ updates < MaxUpdates
       /\ ~Has(session_state, "smart_training_initialized")
       /\ updates' = updates + 1
       /\ \E c \in Koncept, s \in ContentScores :
              update_mastery_score(c, s, Milli(1000)) /\ UNCHANGED session_state
    \/ /\ UNCHANGED updates
       /\ \/ start_smart_training
          \/ hitta_nytt
          \/ TrainingBudget /\ forstatt
          \/ TrainingBudget /\ osaker
          \/ TrainingBudget /\ for_svart
          \/ \E confused_with \in TwoConcepts \cup {"Inget speciellt"} :
                 registrera(confused_with)
          \/ hoppa_over
          \/ test_btn
          \/ TrainingBudget /\ \E correct_count \in 0 .. QuickTestLen :
                                  nasta(correct_count)

SpecContent == InitContent /\ [][ContentNext]_vars

(***************************************************************************)
(* Properties.                                                             *)
(***************************************************************************)
\* C1: the stored mastery_score of every concept stays within [0, 1] under
\* update_mastery_score (observation in [0, 1], learning rate in (0, 1]) and
\* update_learning_progress (success, partial, failure), from the default 0.0.
C1_MasteryInUnitRange ==
    \A c \in Koncept :
        mastery_score[c] # Null =>
            mastery_score[c] >= 0 /\ mastery_score[c] <= Scale

\* A success recorded, after a mastery update, on a concept left at mastery 1.0.
C1_Witness ==
    /\ returned.op = "update_learning_progress"
    /\ returned.success
    /\ updates > 0
    /\ mastery_score[returned.concept] = Scale

\* C2: update_mastery_score stores and returns (1 - learning_rate) * current
\* + learning_rate * observation (to the nearest unit), current being the
\* stored mastery or 0.0 when absent; with learning_rate = 1 the observation
\* itself is stored; and 0.4 updated with 0.8 at rate 0.15 gives 0.46.
C2_WeightedAverage ==
    [][returned'.op = "update_mastery_score" /\ updates' = updates + 1 =>
          LET c == returned'.concept_name
              s == returned'.new_score
              lr == returned'.learning_rate
              current == IF c \notin Koncept \/ mastery_score[c] = Null
                         THEN 0 ELSE mastery_score[c]
              exact == (Scale - lr) * current + lr * s
              updated == returned'.updated_score
          IN  /\ 2 * (Scale * updated - exact) <= Scale
              /\ 2 * (exact - Scale * updated) <= Scale
              /\ returned'.current_score = current
              /\ c \in Koncept => mastery_score'[c] = updated
              /\ lr = Scale => updated = s
              /\ (current = Milli(400) /\ s = Milli(800) /\ lr = Milli(150))
                     => updated = Milli(460)]_vars

\* The update of 0.4 with 0.8 at rate 0.15 has run and stored 0.46.
C2_Witness ==
    /\ returned.op = "update_mastery_score"
    /\ returned.concept_name = "A"
    /\ returned.new_score = Milli(800)
    /\ returned.learning_rate = Milli(150)
    /\ returned.current_score = Milli(400)
    /\ mastery_score["A"] = Milli(460)

\* C3: record_review of an existing concept with stored interval i >= 1,
\* ease factor e and difficulty d stores, by quality: 0 -> interval 1, ease
\* max(1.3, e - 0.3), difficulty min(0.9, d + 0.1); 1 -> interval
\* max(1, floor(0.6 i)), ease max(1.3, e - 0.15), difficulty min(0.9, d + 0.05);
\* 2 -> interval floor(i e), ease and difficulty unchanged; 3 -> interval
\* floor(1.3 i e) with the old e, ease min(2.8, e + 0.1), difficulty
\* max(0.1, d - 0.05).  (1, 2.5, 0.3) gives interval 2 at quality 2 and
\* (1, 2.2, 0.4) at quality 0.
C3_ReviewTable ==
    [][\A c \in Koncept, q \in Qualities :
          (id[c] = ConceptId(c) /\ interval[c] >= 1
               /\ record_review(ConceptId(c), q)) =>
              LET i == interval[c]
                  e == ease_factor[c]
                  d == difficulty[c]
                  start == i = 1 /\ e = Milli(2500) /\ d = Milli(300)
              IN  /\ q = 0 =>
                        /\ interval'[c] = 1
                        /\ ease_factor'[c] = Max(Milli(1300), e - Milli(300))
                        /\ difficulty'[c] = Min(Milli(900), d + Milli(100))
                        /\ start => /\ ease_factor'[c] = Milli(2200)
                                    /\ difficulty'[c] = Milli(400)
                  /\ q = 1 =>
                        /\ interval'[c] = Max(1, (6 * i) \div 10)
                        /\ ease_factor'[c] = Max(Milli(1300), e - Milli(150))
                        /\ difficulty'[c] = Min(Milli(900), d + Milli(50))
                  /\ q = 2 =>
                        /\ interval'[c] = (i * e) \div Scale
                        /\ ease_factor'[c] = e
                        /\ difficulty'[c] = d
                        /\ start => interval'[c] = 2
                  /\ q = 3 =>
                        /\ interval'[c] = (13 * i * e) \div (10 * Scale)
                        /\ ease_factor'[c] = Min(Milli(2800), e + Milli(100))
                        /\ difficulty'[c] = Max(Milli(100), d - Milli(50))]_vars

\* Three "Latt" reviews from the defaults: the third is computed from
\* interval 10 and the old ease factor 2.7, and stores interval 35.
C3_Witness ==
    /\ returned.op = "record_review"
    /\ returned.quality = 3
    /\ review_count["A"] = 3
    /\ interval["A"] = 35
    /\ ease_factor["A"] = Milli(2800)

C5_IntervalAtLeastOne ==
    \A c \in Koncept : interval[c] # Null => interval[c] \in Nat \ {0}

\* "Svart" on an interval of 1 day: floor(0.6) is 0, and 1 is stored.
C5_Witness ==
    /\ returned.op = "record_review"
    /\ returned.quality = 1
    /\ review_count["A"] = 1
    /\ interval["A"] = 1

\* C6: from every reachable (interval, ease_factor) the interval record_review
\* would store is monotone in the quality: "Latt" >= "Bra" >= "Svart" >=
\* "Glomt", which is 1.
C6_IntervalMonotoneInQuality ==
    \A c \in Koncept :
        interval[c] # Null =>
            LET next(q) == review_interval(Or(interval[c], 1),
                                           Or(ease_factor[c], Milli(2500)), q)
            IN  /\ next(3) >= next(2)
                /\ next(2) >= next(1)
                /\ next(1) >= next(0)
                /\ next(0) = 1

\* A reviewed concept from which the four qualities give four different
\* intervals.
C6_Witness ==
    /\ returned.op = "record_review"
    /\ interval["A"] # Null
    /\ LET next(q) == review_interval(Or(interval["A"], 1),
                                      Or(ease_factor["A"], Milli(2500)), q)
       IN  next(3) > next(2) /\ next(2) > next(1) /\ next(1) > next(0)

\* The rows find_optimal_concept evaluated, when it is what ran last.
Found == returned.op = "find_optimal_concept"
Rows == DOMAIN returned.concepts

C9_ArgmaxFirstOnTies ==
    (Found /\ Rows # {}) =>
        \E k \in Rows :
            /\ returned.result = <<returned.concepts[k], returned.details[k]>>
            /\ \A j \in Rows : returned.details[j].total_score
                                   <= returned.details[k].total_score
            /\ \A j \in Rows : j < k => returned.details[j].total_score
                                           < returned.details[k].total_score

\* Two concepts with the same total_score: the first row is returned.
C9_Witness ==
    /\ Found
    /\ Cardinality(Rows) = 2
    /\ returned.details[1].total_score = returned.details[2].total_score
    /\ returned.result[1] = returned.concepts[1]
    /\ returned.result[1] # returned.concepts[2]

\* C10: right after a recorded review of a concept (record_review or
\* update_learning_progress) the stored next_review is the stored last_review
\* plus the stored interval in days, up to the tick between the handler's two
\* reads of the clock.
C10_NextReviewIsLastPlusInterval ==
    \A c \in Koncept :
        (/\ interval[c] # Null
         /\ \/ returned.op = "record_review" /\ returned.concept_id = id[c]
            \/ returned.op = "update_learning_progress" /\ returned.concept = c)
        =>  LET due == last_review[c] + interval[c] * TicksPerDay
            IN  next_review[c] <= due /\ due <= next_review[c] + 1

\* C11: every record_review on an existing concept, with any quality in
\* 0..3 and from any state, raises the stored review_count by exactly 1, a
\* missing count counting as 0.
C11_ReviewCountPlusOne ==
    [][\A c \in Koncept, q \in Qualities :
          (id[c] = ConceptId(c) /\ record_review(ConceptId(c), q)) =>
              review_count'[c] =
                  (IF review_count[c] = Null THEN 0 ELSE review_count[c]) + 1]_vars

\* A third review recorded, with quality 0.
C11_Witness ==
    /\ returned.op = "record_review"
    /\ returned.quality = 0
    /\ last_quality["A"] = 0
    /\ review_count["A"] = 3

\* The scheduler fields of concept c as one tuple.
Scheduled(c) ==
    <<retention[c], difficulty[c], interval[c], ease_factor[c],
      review_count[c], last_review[c], next_review[c]>>

\* The step replaces a stored value of the field: filling in a missing one
\* (as build_graph does with its defaults) does not count.
MasteryChanged(c) ==
    mastery_score[c] # Null /\ mastery_score'[c] # mastery_score[c]
IntervalOrEaseChanged(c) ==
    \/ interval[c] # Null /\ interval'[c] # interval[c]
    \/ ease_factor[c] # Null /\ ease_factor'[c] # ease_factor[c]
ProgressChanged(c) ==
    \/ retention[c] # Null /\ retention'[c] # retention[c]
    \/ difficulty[c] # Null /\ difficulty'[c] # difficulty[c]
    \/ review_count[c] # Null /\ review_count'[c] # review_count[c]
    \/ last_review'[c] # last_review[c]
    \/ next_review'[c] # next_review[c]

C13_AtMostOneStudent == Cardinality(Student) <= 1

\* The node created without an id by get_user_profile, then found by
\* get_or_create_student_profile and by track_learning_event, with the
\* profile updated.
C13_Witness ==
    /\ Student = {"none"}
    /\ returned.op = "get_or_create_student_profile"
    /\ Len(learning_history) >= 2
    /\ forgetting_factor = Milli(500)
    /\ streak_days = Null

\* The graph as the scorer would read it with no confusion relation.
NoConfusions ==
    [neo4j EXCEPT !.FORVAXLAS_MED = [p \in AllConcepts \X AllConcepts |-> 0]]

\* C14: of two concepts that differ only in their confusion relations, the
\* one whose relations have counts summing to n scores higher than the one
\* without relations by (0.1 * n) / (estimated_time / 60), with
\* estimated_time = 5 + 10 * difficulty (each score rounded to the unit of
\* the model); without confusion relations the discrimination bonus is 0.
C14_DiscriminationBonus ==
    \A c \in Koncept :
        LET concept == concept_data(neo4j, c)
            B == calculate_concept_score(neo4j, concept)
            A == calculate_concept_score(NoConfusions, concept)
            n == Total([o \in AllConcepts |-> reports(c, o)], Koncept \ {c})
            estimated_time == 5 * Scale + 10 * concept.difficulty
            expected == RoundDiv(n * Milli(100) * 6 * Scale,
                                 estimated_time \div 10)
        IN  /\ A.training_effect = 0
            /\ B.training_effect = n * Milli(100)
            /\ B.estimated_time = estimated_time
            /\ A.estimated_time = estimated_time
            /\ B.total_score - A.total_score \in expected - 1 .. expected + 1

\* Concept A has been practised (its difficulty is no longer the default)
\* and has two confusion relations, one in each direction, whose counts sum
\* to 3.
C14_Witness ==
    /\ FORVAXLAS_MED[<<"A", "B">>] = 2
    /\ FORVAXLAS_MED[<<"C", "A">>] = 1
    /\ difficulty["A"] # Milli(300)
    /\ calculate_concept_score(neo4j, concept_data(neo4j, "A")).training_effect
           = Milli(300)

\* The counts of the relations between a and b that the scorer reads when it
\* scores a (MATCH in either direction from a).
seen_from(db, a, b) ==
    {x \in confusion_counts(db, a) : x[1] \in {<<a, b>>, <<b, a>>}}

\* C17: each register_confusion(a, b) on two existing concepts raises the
\* count of the relation between a and b by exactly 1, whichever is named
\* first, and changes no other relation; after it the counts of all
\* relations add up to the number of reports made, one relation joins the
\* pair, and it is read with the same count from a and from b.
C17_UndirectedCount ==
    [][(updates' = updates + 1 /\ returned'.op = "register_confusion") =>
        \A a \in {returned'.concept1}, b \in {returned'.concept2},
           db \in {neo4j'} :
            LET count == db.FORVAXLAS_MED[<<a, b>>] + db.FORVAXLAS_MED[<<b, a>>]
            IN  /\ count = reports(a, b) + 1
                /\ \A p \in DOMAIN FORVAXLAS_MED :
                       p \notin {<<a, b>>, <<b, a>>}
                           => db.FORVAXLAS_MED[p] = FORVAXLAS_MED[p]
                /\ Sum({<<p, db.FORVAXLAS_MED[p]>> : p \in DOMAIN FORVAXLAS_MED})
                       = updates + 1
                /\ Cardinality(seen_from(db, a, b)) = 1
                /\ seen_from(db, a, b) = seen_from(db, b, a)
                /\ \A x \in seen_from(db, a, b) : x[2] = count]_vars

\* The pair A, B reported twice, B named first the first time and A the
\* second time.
C17_Witness ==
    /\ returned.op = "register_confusion"
    /\ returned.concept1 = "A" /\ returned.concept2 = "B"
    /\ FORVAXLAS_MED[<<"B", "A">>] = 2
    /\ FORVAXLAS_MED[<<"A", "B">>] = 0

\* The clock readings at which a concept is scored again: the next ticks,
\* then a week, a month and two months later.
Later ==
    [k \in 1 .. MaxStale + 1 |-> k - 1]
        \o <<7 * TicksPerDay, 30 * TicksPerDay, 60 * TicksPerDay>>

\* C15: with mastery, retention, difficulty and confusion data unchanged, a
\* longer time since the last review never gives a smaller
\* recall_improvement, and a concept never reviewed gets the
\* recall_improvement of 30 days without review.
C15_StalenessMonotone ==
    \A c \in Koncept :
        LET concept == concept_data(neo4j, c)
            at(h) == calculate_concept_score(
                         [neo4j EXCEPT !.now = now + h], concept)
        IN  /\ \A k \in 1 .. Len(Later) - 1 :
                   at(Later[k]).recall_improvement
                       <= at(Later[k + 1]).recall_improvement
            /\ concept.last_review = Null =>
                   \A k \in 1 .. Len(Later) :
                       at(Later[k]).recall_improvement =
                           Max(0, Milli(900)
                                    - current_retention(concept.retention,
                                                        30 * Scale))

\* A reviewed concept whose recall_improvement is positive now and larger a
\* week from now.
C15_Witness ==
    /\ last_review["A"] # Null
    /\ returned.op = "record_review"
    /\ LET concept == concept_data(neo4j, "A")
           soon == calculate_concept_score(neo4j, concept)
           late == calculate_concept_score(
                       [neo4j EXCEPT !.now = now + 7 * TicksPerDay], concept)
       IN  /\ soon.recall_improvement > 0
           /\ late.recall_improvement > soon.recall_improvement

\* C16: the current_retention that the scorer computes and reports is
\* within [0, 1] for every concept state reached from the defaults by
\* record_review and update_learning_progress.
C16_CurrentRetentionInUnitRange ==
    \A c \in Koncept :
        id[c] # Null =>
            calculate_concept_score(neo4j, concept_data(neo4j, c))
                .current_retention \in 0 .. Scale

\* C18: a record_review of an existing concept with a quality outside 0..3
\* leaves the stored state of the concept unchanged and is answered with an
\* invalid-quality error.
C18_InvalidQualityRejected ==
    [][(/\ returned'.op = "record_review"
        /\ returned'.quality \notin Qualities
        /\ \E c \in Koncept : id[c] = returned'.concept_id)
          => /\ UNCHANGED fields
             /\ "error" \in DOMAIN returned']_vars

\* C19: when the record_review calls of two sessions interleave, the stored
\* scheduler fields of the concept are those of the last writer alone: each
\* equals that writer's transition applied to the row it read, whatever the
\* other session wrote between its read and its write.
C19_LastWriteWins ==
    returned.op = "record_review" =>
        LET record == returned.record
            c == record.concept
            q == record.quality
            i == IF record.interval \in {Null, 0} THEN 1 ELSE record.interval
            e == IF record.ease_factor \in {Null, 0} THEN Milli(2500)
                 ELSE record.ease_factor
            d == IF record.difficulty \in {Null, 0} THEN Milli(300)
                 ELSE record.difficulty
            n == IF record.review_count = Null THEN 0 ELSE record.review_count
            ni == review_interval(i, e, q)
        IN  /\ interval[c] = ni
            /\ ease_factor[c] = review_ease_factor(e, q)
            /\ difficulty[c] = review_difficulty(d, q)
            /\ review_count[c] = n + 1
            /\ last_quality[c] = q
            /\ retention[c] = _calculate_retention(ni, profile_forgetting_factor)
            /\ next_review[c] - last_review[c]
                   \in ni * TicksPerDay - 1 .. ni * TicksPerDay
            /\ last_review[c] <= now

\* Both sessions read the fresh concept, session 1 wrote an easy recall and
\* session 2 then wrote a forgotten one: one of the two reviews is lost.
C19_Witness ==
    /\ returned.op = "record_review"
    /\ returned.session = 2
    /\ returned.record.review_count = 0
    /\ updates = 2
    /\ review_count["A"] = 1
    /\ last_quality["A"] = 0
    /\ interval["A"] = 1
    /\ in_flight = [s \in Sessions |-> <<>>]

\* C20: for every concept scored, the total_score of the breakdown equals
\* (recall_improvement + training_effect - failure_risk) /
\* (estimated_time / 60) computed from the other values of the breakdown.
C20_TotalScoreIsTheFormula ==
    Found =>
        \A k \in Rows :
            LET details == returned.details[k]
            IN  details.total_score =
                    RoundDiv((details.recall_improvement
                                + details.training_effect
                                - details.failure_risk) * 6 * Scale,
                             details.estimated_time \div 10)

\* C21: get_streak_days returns the number of consecutive days with a
\* recorded review, so it returns at least 1 when it is read on a day on
\* which a review has been recorded.
C21_StreakCountsReviewDays ==
    (/\ returned.op = "get_streak_days"
     /\ \E c \in Koncept :
          /\ last_quality[c] # Null
          /\ last_review[c] \div TicksPerDay = now \div TicksPerDay)
        => returned.streak >= 1

\* C22: after every track_learning_event call the persisted
\* learning_history holds at most 1000 events, and they are the most
\* recently tracked ones in the order they were tracked: the history before
\* the call followed by the event of the call, cut to its last 1000.
C22_HistoryIsLatestThousand ==
    [][(returned'.op = "track_learning_event" /\ returned'.student) =>
          /\ Len(learning_history') <= 1000
          /\ learning_history' =
                 LET h == Append(learning_history, returned'.event)
                 IN  IF Len(h) > 1000 THEN Tail(h) ELSE h]_vars

\* C27: every track_learning_event call made while a Student node exists
\* leaves its event as the last one of the persisted learning_history,
\* whatever the event type and the success value, also when the history
\* holds 10 or more events and none of the last 100 has a success value.
C27_EveryEventAppended ==
    [][(returned'.op = "track_learning_event" /\ returned'.student) =>
          /\ learning_history' # <<>>
          /\ learning_history'[Len(learning_history')] = returned'.event
          /\ Len(learning_history) < 1000 =>
                 Len(learning_history') = Len(learning_history) + 1]_vars

\* C23: in the review tab the "all concepts reviewed for this session"
\* state is never shown while a concept of the filter is still due.
C23_AllReviewedOnlyWhenNothingDue ==
    (Has(session_state, "current_concept_idx") /\ shown = {"alla koncept"})
        => DueSet = {}

C25_OneUpdatePerAssessment ==
    [][updates' # updates =>
          /\ updates' = updates + 1
          /\ Get(session_state, "assessment_questions_answered", 0) = 2
          /\ session_state'.assessment_questions_answered = 3]_vars

\* C26: in assessment mode with fewer than three answers counted, the
\* question to show is read from generated questions: assessment_questions
\* is never None there, also after "Fortsatt studera detta koncept" and
\* after a detour through the Socratic dialogue.
C26_QuestionsGeneratedWhenRead ==
    (/\ learning_mode(session_state) = "assessment"
     /\ session_state.assessment_questions_answered < 3)
        => /\ session_state.assessment_questions = assessment_questions("A")
           /\ session_state.assessment_concept = "A"

\* C30: in a Socratic dialogue an answer evaluated with an
\* understanding_score of 0.3 or more never lowers the stored mastery_score
\* of the concept, whatever it was before the answer.
C30_GoodAnswerNeverLowersMastery ==
    [][(updates' = updates + 1 /\ returned'.op = "update_mastery_score") =>
          mastery_score'["A"] >= COALESCE(mastery_score["A"], 0)]_vars

\* C29: update_learning_progress with success=True schedules next_review
\* at least one day after the call (the time last_review is set to), from
\* every concept state that record_review and update_learning_progress
\* leave behind.
C29_SuccessSchedulesADayAhead ==
    [][\A c \in Koncept :
          (/\ returned'.op = "update_learning_progress"
           /\ returned'.concept = c
           /\ returned'.success
           /\ review_count'[c] = Or(review_count[c], 0) + 1)
              => next_review'[c] >= now + TicksPerDay]_vars

\* C28: the training content read from the session belongs to the concept
\* of current_training: the practice question in current_question (which is
\* a question, not the index of a quick test), the questions of the quick
\* test and the advanced task were generated for it, and the result of a
\* quick test goes to the concept its questions were generated for.
C28_ContentOfTheConceptTrained ==
    /\ Has(session_state, "current_training") =>
         LET namn == session_state.current_training.concept.namn
             mode == training_mode(session_state)
         IN  /\ (mode = "practice" /\ Has(session_state, "current_question"))
                   => session_state.current_question = generated(namn)
             /\ (/\ mode = "guided"
                 /\ Get(session_state, "show_quick_test", FALSE)
                 /\ Has(session_state, "test_questions"))
                   => session_state.test_questions = generated(namn)
             /\ (mode = "advanced" /\ Has(session_state, "advanced_task"))
                   => session_state.advanced_task = generated(namn)
    /\ returned.op = "quick_test"
          => returned.questions = generated(returned.concept)

=============================================================================
